---- MODULE Spec2Model ----
(***************************************************************************)
(* A model of ouster_ros' scan-to-cloud conversion (src/src/os_ros.cpp):   *)
(* packet_to_imu_msg, get_or_fill_zero, scan_to_cloud, copy_scan_to_cloud, *)
(* scan_to_cloud_f and clouddestagger, with the point type of              *)
(* src/include/ouster_ros/os_point.h.                                      *)
(*                                                                         *)
(* Machine words are scaled: an int / uint32_t of the source has WordBits  *)
(* bits here and a size_t / ptrdiff_t / nanosecond count has 2*WordBits,   *)
(* so that every wrap-around of the source's arithmetic happens inside     *)
(* the range TLC enumerates.  uint16_t and uint8_t keep their widths.      *)
(***************************************************************************)
EXTENDS Integers, Sequences, FiniteSets, TLC

VARIABLES
    ls,                  \* the LidarScan handed to a conversion (h, w, fields, timestamp)
    scan_ts,             \* frame start timestamp (ns) handed to a conversion
    return_index,        \* the return asked for
    destagger,           \* scan_to_cloud_f's destagger flag
    pixel_shift_by_row,  \* the shift table
    cloud,               \* the caller's cloud (clouddestagger's input)
    destaggeredcloud,    \* the caller's destaggered cloud (clouddestagger's result)
    restaggered,         \* result of destaggering destaggeredcloud with the inverse shifts
    access_log,          \* history: <<row, written column, read column>> of every at() pair
    pending,             \* copy_scan_to_cloud iterations (u, v) not yet run by a worker
    pm,                  \* the IMU packet's decoded values
    imu,                 \* the sensor_msgs::Imu built from pm
    err,                 \* the exception a call ended with, "none" otherwise
    pc                   \* where the caller is

vars == <<ls, scan_ts, return_index, destagger, pixel_shift_by_row, cloud,
          destaggeredcloud, restaggered, access_log, pending, pm, imu, err, pc>>

(***************************************************************************)
(* Bounds of the model.                                                    *)
(***************************************************************************)
MaxH == 2
MaxW == 3
WordBits == 3

(***************************************************************************)
(* Machine arithmetic.                                                     *)
(***************************************************************************)
RECURSIVE Pow2(_)
Pow2(n) == IF n = 0 THEN 1 ELSE 2 * Pow2(n - 1)

WordMod == Pow2(WordBits)
SizeMod == Pow2(2 * WordBits)

\* the values of an int
IntVals == (0 - WordMod \div 2) .. (WordMod \div 2 - 1)

\* conversion to uint32_t / arithmetic in uint32_t
U32(x) == x % WordMod
\* conversion to size_t
USize(x) == x % SizeMod
\* conversion to uint16_t, uint8_t
U16(x) == x % 65536
U8(x) == x % 256

\* conversion of an unsigned integer to float: 24 bits of mantissa, round to
\* nearest, ties to even
RECURSIVE FloatStep(_, _)
FloatStep(x, step) == IF x < 16777216 * step THEN step ELSE FloatStep(x, 2 * step)

ToFloat(x) ==
    LET step == FloatStep(x, 1)
        q == x \div step
        r == x % step
    IN IF 2 * r < step \/ (2 * r = step /\ q % 2 = 0) THEN q * step
       ELSE (q + 1) * step

Min(a, b) == IF a < b THEN a ELSE b
Max(a, b) == IF a > b THEN a ELSE b

(***************************************************************************)
(* ouster_ros::Point and ouster_ros::Cloud (pcl::PointCloud<Point>).       *)
(***************************************************************************)
\* a value-initialised Point
DefaultPoint ==
    [x |-> 0, y |-> 0, z |-> 0, intensity |-> 0, t |-> 0, reflectivity |-> 0,
     ring |-> 0, ambient |-> 0, range |-> 0, color |-> 0]

\* Cloud(width, height): width*height value-initialised points
NewCloud(width, height) ==
    [width |-> width, height |-> height,
     points |-> [k \in 1 .. (width * height) |-> DefaultPoint]]

\* the index pcl's at(column, row) hands to points.at(): row * width + column
\* in uint32_t
AtIndex(cl, column, row) == U32(row * cl.width + column)

\* at(column, row) throws std::out_of_range outside the points vector
AtInRange(cl, column, row) == AtIndex(cl, column, row) < Len(cl.points)

AtGet(cl, column, row) == cl.points[AtIndex(cl, column, row) + 1]

AtSet(cl, column, row, p) ==
    [cl EXCEPT !.points[AtIndex(cl, column, row) + 1] = p]

(***************************************************************************)
(* clouddestagger.                                                         *)
(***************************************************************************)
\* a plausible slip: the remainder taken in signed int (C's % truncates)
DestaggerOffsetSigned(shift, width) ==
    LET n == shift + width
    IN IF n >= 0 THEN n % width ELSE 0 - ((0 - n) % width)

\* offset = (pixel_shift_by_row[asd] + destaggered.width) % destaggered.width:
\* int + uint32_t is computed in uint32_t
DestaggerOffset(shift, width) == U32(shift + width) % width

\* a plausible slip: the first loop stops one column early
FirstLoopBoundShort(w, offset) == USize(w - offset - 1)

\* the bound of the first copy loop, w - offset in size_t
FirstLoopBound(w, offset) == USize(w - offset)

\* one destaggered.at(j, asd) = cloud.at(i, asd); st is [thrown, cl, log]
CopyAt(st, src, j, i, asd) ==
    LET logged == Append(st.log, <<asd, j, i>>)
    IN IF AtInRange(src, i, asd) /\ AtInRange(st.cl, j, asd)
       THEN [thrown |-> "none", cl |-> AtSet(st.cl, j, asd, AtGet(src, i, asd)),
             log |-> logged]
       ELSE [thrown |-> "out_of_range", cl |-> st.cl, log |-> logged]

\* for (int j = offset; j < w - offset; j++) { ...; i++; }
RECURSIVE FirstLoop(_, _, _, _, _, _)
FirstLoop(st, src, j, i, bound, asd) ==
    IF st.thrown # "none" \/ ~(USize(j) < bound) THEN st
    ELSE FirstLoop(CopyAt(st, src, j, i, asd), src, j + 1, i + 1, bound, asd)

\* i = w - offset; for (int j = 0; j < offset; j++) { ...; i++; }
RECURSIVE SecondLoop(_, _, _, _, _, _)
SecondLoop(st, src, j, i, offset, asd) ==
    IF st.thrown # "none" \/ ~(j < offset) THEN st
    ELSE SecondLoop(CopyAt(st, src, j, i, asd), src, j + 1, i + 1, offset, asd)

\* the body of the row loop for row asd
DestaggerRow(st, src, shifts, asd) ==
    LET w == src.width
        offset == DestaggerOffset(shifts[asd + 1], st.cl.width)
        first == FirstLoop(st, src, offset, 0, FirstLoopBound(w, offset), asd)
    IN SecondLoop(first, src, 0, w - offset, offset, asd)

\* for (int asd = 0; asd < destaggered.height; asd++)
RECURSIVE RowLoop(_, _, _, _)
RowLoop(st, src, shifts, asd) ==
    IF st.thrown # "none" \/ ~(asd < st.cl.height) THEN st
    ELSE RowLoop(DestaggerRow(st, src, shifts, asd), src, shifts, asd + 1)

\* clouddestagger(cloud, pixel_shift_by_row): [thrown, cl, log]; cl is the
\* returned cloud when thrown = "none"
clouddestagger(src, shifts) ==
    LET destaggered == NewCloud(src.width, src.height)
        st0 == [thrown |-> "none", cl |-> destaggered, log |-> << >>]
    IN IF Len(shifts) # destaggered.height
       THEN [st0 EXCEPT !.thrown = "invalid_argument"]
       ELSE RowLoop(st0, src, shifts, 0)

(***************************************************************************)
(* Inputs.                                                                 *)
(***************************************************************************)
\* pcl's at(column, row) needs an organized cloud: height > 1
Heights == 2 .. MaxH
\* a width is a uint32_t that the shift table's ints can hold (width - o)
Widths == 1 .. Min(MaxW, WordMod \div 2 - 1)

\* a point that differs from the default one: n > 0 tells the points apart
SamplePoint(n) == [DefaultPoint EXCEPT !.range = n, !.x = n, !.t = n]

\* clouds of width*height points: all points distinct, all points default,
\* and one marked point among default ones
InputClouds(width, height) ==
    LET n == width * height
    IN {[width |-> width, height |-> height,
         points |-> [k \in 1 .. n |-> SamplePoint(k)]]}
       \cup {NewCloud(width, height)}
       \cup {[width |-> width, height |-> height,
              points |-> [k \in 1 .. n |-> IF k = m THEN SamplePoint(1)
                                                    ELSE DefaultPoint]] : m \in 1 .. n}

\* shift tables of the cloud's height, and of one row less
ShiftTables(height) ==
    [1 .. height -> IntVals] \cup [1 .. (height - 1) -> IntVals]

NoScan == [h |-> 0, w |-> 0, fields |-> << >>, timestamp |-> << >>]
NoCloud == NewCloud(0, 0)
NoPacket ==
    [la_x |-> 0, la_y |-> 0, la_z |-> 0, av_x |-> 0, av_y |-> 0, av_z |-> 0, gyro_ts |-> 0]
NoImu == << >>

(***************************************************************************)
(* Destaggering a cloud, then destaggering the result with the inverse     *)
(* shifts.                                                                 *)
(***************************************************************************)
InitDestagger ==
    /\ \E h \in Heights, w \in Widths :
          /\ cloud \in InputClouds(w, h)
          /\ pixel_shift_by_row \in ShiftTables(h)
    /\ destaggeredcloud = NoCloud
    /\ restaggered = NoCloud
    /\ access_log = << >>
    /\ ls = NoScan /\ scan_ts = 0 /\ return_index = 0 /\ destagger = TRUE
    /\ pending = {} /\ pm = NoPacket /\ imu = NoImu
    /\ err = "none"
    /\ pc = "idle"

\* destaggeredcloud = clouddestagger(cloud, pixel_shift_by_row)
Destagger ==
    /\ pc = "idle"
    /\ LET r == clouddestagger(cloud, pixel_shift_by_row)
       IN /\ access_log' = r.log
          /\ IF r.thrown = "none"
             THEN /\ destaggeredcloud' = r.cl
                  /\ pc' = "destaggered"
                  /\ err' = err
             ELSE /\ destaggeredcloud' = destaggeredcloud
                  /\ pc' = "failed"
                  /\ err' = r.thrown
    /\ UNCHANGED <<ls, scan_ts, return_index, destagger, pixel_shift_by_row, cloud,
                   restaggered, pending, pm, imu>>

\* the inverse shift table: width - o per row, o the row's offset
InverseShifts(shifts, width) ==
    [u \in 1 .. Len(shifts) |-> width - DestaggerOffset(shifts[u], width)]

\* restaggered = clouddestagger(destaggeredcloud, inverse shifts)
Restagger ==
    /\ pc = "destaggered"
    /\ LET r == clouddestagger(destaggeredcloud,
                               InverseShifts(pixel_shift_by_row, cloud.width))
       IN IF r.thrown = "none"
          THEN /\ restaggered' = r.cl
               /\ pc' = "restaggered"
               /\ err' = err
          ELSE /\ restaggered' = restaggered
               /\ pc' = "failed"
               /\ err' = r.thrown
    /\ UNCHANGED <<ls, scan_ts, return_index, destagger, pixel_shift_by_row, cloud,
                   destaggeredcloud, access_log, pending, pm, imu>>

NextDestagger == Destagger \/ Restagger

SpecDestagger == InitDestagger /\ [][NextDestagger]_vars

\* the point of a cloud at (column, row), row-major
PointAt(cl, column, row) == cl.points[row * cl.width + column + 1]

\* C1: destaggering is a circular left rotation of every row u by
\* o = s[u] mod width: output(k, u) = input((k + o) mod width, u) for every
\* column k, so every output column is written.
C1_LeftRotation ==
    pc = "destaggered" =>
        \A u \in 0 .. (cloud.height - 1), k \in 0 .. (cloud.width - 1) :
            PointAt(destaggeredcloud, k, u) =
                PointAt(cloud, (k + (pixel_shift_by_row[u + 1] % cloud.width)) % cloud.width, u)

\* C2: destaggering and then destaggering with the inverse shifts gives
\* back the original cloud.
C2_RoundTrip ==
    pc = "restaggered" => restaggered = cloud

\* C7: with an all-zero shift table of length H the destaggered cloud
\* equals the input cloud point for point.
C7_ZeroShiftIdentity ==
    (/\ pc # "idle"
     /\ Len(pixel_shift_by_row) = cloud.height
     /\ \A u \in 1 .. Len(pixel_shift_by_row) : pixel_shift_by_row[u] = 0)
    => /\ err = "none"
       /\ destaggeredcloud.width = cloud.width
       /\ destaggeredcloud.height = cloud.height
       /\ \A u \in 0 .. (cloud.height - 1), k \in 0 .. (cloud.width - 1) :
              PointAt(destaggeredcloud, k, u) = PointAt(cloud, k, u)

C7_Witness ==
    /\ pc = "destaggered"
    /\ cloud.width >= 2
    /\ \A u \in 1 .. Len(pixel_shift_by_row) : pixel_shift_by_row[u] = 0
    /\ \A k \in 1 .. Len(cloud.points) : cloud.points[k] = SamplePoint(k)
    /\ destaggeredcloud = cloud

\* C10: for width >= 1 and any ints as shifts, every row's offset lies in
\* [0, width) and every column read or written by the copy loops lies in
\* [0, width); no at() is out of range.
C10_InBounds ==
    (pc # "idle" /\ Len(pixel_shift_by_row) = cloud.height) =>
        /\ err # "out_of_range"
        /\ \A u \in 1 .. cloud.height :
               DestaggerOffset(pixel_shift_by_row[u], cloud.width) \in 0 .. (cloud.width - 1)
        /\ \A e \in 1 .. Len(access_log) :
               /\ access_log[e][2] \in 0 .. (cloud.width - 1)
               /\ access_log[e][3] \in 0 .. (cloud.width - 1)

C10_Witness ==
    /\ pc = "destaggered"
    /\ \E u \in 1 .. cloud.height : pixel_shift_by_row[u] < 0 - cloud.width
    /\ \E u \in 1 .. cloud.height : pixel_shift_by_row[u] >= cloud.width
    /\ Len(access_log) >= cloud.width

(***************************************************************************)
(* Channel fields and their extraction from a LidarScan.                   *)
(***************************************************************************)
ChanFields ==
    {"RANGE", "RANGE2", "SIGNAL", "SIGNAL2", "REFLECTIVITY", "REFLECTIVITY2", "NEAR_IR"}

suitable_return(input_field, second) ==
    CASE input_field \in {"RANGE", "RANGE2"} ->
             IF second THEN "RANGE2" ELSE "RANGE"
      [] input_field \in {"SIGNAL", "SIGNAL2"} ->
             IF second THEN "SIGNAL2" ELSE "SIGNAL"
      [] input_field \in {"REFLECTIVITY", "REFLECTIVITY2"} ->
             IF second THEN "REFLECTIVITY2" ELSE "REFLECTIVITY"
      [] input_field = "NEAR_IR" -> "NEAR_IR"
      [] OTHER -> "Unreachable"

\* img_t<T>::Zero(ls.h, ls.w)
ZeroImg(h, w) == [k \in 1 .. (h * w) |-> 0]

\* get_or_fill_zero<uint16_t>(f, ls): the field cast to uint16_t, zeros when
\* the scan has no such field
get_or_fill_zero16(f, scan) ==
    IF f \notin DOMAIN scan.fields THEN ZeroImg(scan.h, scan.w)
    ELSE [k \in 1 .. (scan.h * scan.w) |-> U16(scan.fields[f][k])]

\* get_or_fill_zero<uint32_t>(f, ls)
get_or_fill_zero32(f, scan) ==
    IF f \notin DOMAIN scan.fields THEN ZeroImg(scan.h, scan.w)
    ELSE [k \in 1 .. (scan.h * scan.w) |-> U32(scan.fields[f][k])]

\* ls.field<uint32_t>(f) has no zero fill: LidarScan::field looks the field
\* up with map::at, which throws std::out_of_range when it is absent
FieldPresent(f, scan) == f \in DOMAIN scan.fields

\* the calibration table: direction and offset per pixel
lut_direction(idx) == <<1, idx + 1, 2>>
lut_offset(idx) == <<1, 0, 0>>

\* cartesian / cartesianT: direction * range + offset per pixel, the zero
\* vector for range 0
Cartesian(range) ==
    [k \in 1 .. Len(range) |->
        IF range[k] = 0 THEN <<0, 0, 0>>
        ELSE [c \in 1 .. 3 |-> lut_direction(k - 1)[c] * range[k] + lut_offset(k - 1)[c]]]

(***************************************************************************)
(* scan_to_cloud.                                                          *)
(***************************************************************************)
\* cloud.resize(n): the points vector cut or padded with default points
Resize(cl, n) ==
    [cl EXCEPT !.points = [k \in 1 .. n |-> IF k <= Len(cl.points) THEN cl.points[k]
                                             ELSE DefaultPoint]]

\* the four images and the projected points scan_to_cloud works on
ScanToCloudImages(scan, second) ==
    LET range == get_or_fill_zero32(suitable_return("RANGE", second), scan)
    IN [near_ir |-> get_or_fill_zero16(suitable_return("NEAR_IR", second), scan),
        range |-> range,
        signal |-> get_or_fill_zero32(suitable_return("SIGNAL", second), scan),
        reflectivity |-> get_or_fill_zero16(suitable_return("REFLECTIVITY", second), scan),
        points |-> Cartesian(range)]

\* the loop body of scan_to_cloud for pixel (u, v): cloud(v, u) = Point{...};
\* st is [cl, log]
ScanToCloudBody(st, scan, sts, im, u, v) ==
    LET xyz == im.points[u * scan.w + v + 1]
        ts == scan.timestamp[v + 1] - sts
        at == u * st.cl.width + v
        p == [x |-> xyz[1], y |-> xyz[2], z |-> xyz[3],
              intensity |-> ToFloat(im.signal[u * scan.w + v + 1]),
              t |-> U32(ts),
              reflectivity |-> U16(im.reflectivity[u * scan.w + v + 1]),
              ring |-> U8(u),
              ambient |-> U16(im.near_ir[u * scan.w + v + 1]),
              range |-> U32(im.range[u * scan.w + v + 1]),
              color |-> 0]
    IN [cl |-> [st.cl EXCEPT !.points[at + 1] = p],
        log |-> Append(st.log, <<u, v, at>>)]

\* for (u = 0; u < ls.h; u++) for (v = 0; v < ls.w; v++), from pixel (u, v) on
RECURSIVE ScanToCloudLoop(_, _, _, _, _, _)
ScanToCloudLoop(st, scan, sts, im, u, v) ==
    IF ~(u < scan.h) THEN st
    ELSE IF ~(v < scan.w) THEN ScanToCloudLoop(st, scan, sts, im, u + 1, 0)
    ELSE ScanToCloudLoop(ScanToCloudBody(st, scan, sts, im, u, v),
                         scan, sts, im, u, v + 1)

\* scan_to_cloud(xyz_lut, scan_ts, ls, cloud, return_index): [cl, log]
scan_to_cloud(sts, scan, cl, ret) ==
    LET second == (ret = 1)
        resized == Resize(cl, scan.w * scan.h)
    IN ScanToCloudLoop([cl |-> resized, log |-> << >>], scan, sts,
                       ScanToCloudImages(scan, second), 0, 0)

(***************************************************************************)
(* copy_scan_to_cloud and scan_to_cloud_f.                                 *)
(***************************************************************************)
\* a plausible slip: the row stride left out of the linear index
CloudIdxNoStride(u, v, w) == u + v

\* idx = u * ls.w + v
CloudIdx(u, v, w) == u * w + v

\* the loop body of copy_scan_to_cloud for pixel (u, v):
\* cloud.points[idx] = Point{...}; st is [cl, log]
CopyBody(st, scan, sts, im, u, v) ==
    LET ts == Min(scan.timestamp[v + 1] - sts, sts)
        idx == CloudIdx(u, v, scan.w)
        xyz == im.points[idx + 1]
        p == [x |-> xyz[1], y |-> xyz[2], z |-> xyz[3],
              intensity |-> ToFloat(im.signal[idx + 1]),
              t |-> U32(ts),
              reflectivity |-> U16(im.reflectivity[idx + 1]),
              ring |-> U16(u),
              ambient |-> U16(im.near_ir[idx + 1]),
              range |-> U32(im.range[idx + 1]),
              color |-> 0]
    IN [cl |-> [st.cl EXCEPT !.points[idx + 1] = p],
        log |-> Append(st.log, <<u, v, idx>>)]

\* the loop nest of copy_scan_to_cloud run by one thread, from pixel (u, v) on
RECURSIVE CopyLoop(_, _, _, _, _, _)
CopyLoop(st, scan, sts, im, u, v) ==
    IF ~(u < scan.h) THEN st
    ELSE IF ~(v < scan.w) THEN CopyLoop(st, scan, sts, im, u + 1, 0)
    ELSE CopyLoop(CopyBody(st, scan, sts, im, u, v), scan, sts, im, u, v + 1)

\* copy_scan_to_cloud(cloud, ls, scan_ts, points, range, reflectivity,
\* near_ir, signal): [cl, log]
copy_scan_to_cloud(cl, scan, sts, im) ==
    CopyLoop([cl |-> cl, log |-> << >>], scan, sts, im, 0, 0)

\* the images scan_to_cloud_f hands to copy_scan_to_cloud; range is read
\* with ls.field<uint32_t>, the others with get_or_fill_zero
ScanToCloudFImages(scan, second) ==
    LET range == [k \in 1 .. (scan.h * scan.w) |->
                     U32(scan.fields[IF second THEN "RANGE2" ELSE "RANGE"][k])]
    IN [range |-> range,
        reflectivity |-> get_or_fill_zero16(suitable_return("REFLECTIVITY", second), scan),
        signal |-> get_or_fill_zero32(suitable_return("SIGNAL", second), scan),
        near_ir |-> get_or_fill_zero16(suitable_return("NEAR_IR", second), scan),
        points |-> Cartesian(range)]

\* scan_to_cloud_f(points, lut_direction, lut_offset, scan_ts, ls, cloud,
\* destaggeredcloud, return_index, pixel_shift_by_row, destagger):
\* [thrown, cloud, destaggeredcloud, log]
scan_to_cloud_f(sts, scan, cl, dcl, ret, shifts, dstg) ==
    LET second == (ret = 1)
        range_channel_field == IF second THEN "RANGE2" ELSE "RANGE"
    IN IF ~(cl.width = U32(scan.w) /\ cl.height = U32(scan.h))
       THEN [thrown |-> "assertion_failed", cloud |-> cl, destaggeredcloud |-> dcl,
             log |-> << >>]
       ELSE IF ~FieldPresent(range_channel_field, scan)
       THEN [thrown |-> "out_of_range", cloud |-> cl, destaggeredcloud |-> dcl,
             log |-> << >>]
       ELSE LET copied == copy_scan_to_cloud(cl, scan, sts, ScanToCloudFImages(scan, second))
            IN IF dstg
               THEN LET d == clouddestagger(copied.cl, shifts)
                    IN [thrown |-> d.thrown,
                        cloud |-> copied.cl,
                        \* destaggeredcloud = cloud; then the result, unless
                        \* clouddestagger throws
                        destaggeredcloud |-> IF d.thrown = "none" THEN d.cl ELSE copied.cl,
                        log |-> copied.log]
               ELSE [thrown |-> "none", cloud |-> copied.cl, destaggeredcloud |-> dcl,
                     log |-> copied.log]

(***************************************************************************)
(* Converting one frame with scan_to_cloud or scan_to_cloud_f.             *)
(***************************************************************************)
FieldCode(f) ==
    CASE f = "RANGE" -> 0 [] f = "RANGE2" -> 1 [] f = "SIGNAL" -> 2
      [] f = "SIGNAL2" -> 3 [] f = "REFLECTIVITY" -> 4 [] f = "REFLECTIVITY2" -> 5
      [] OTHER -> 6

\* a field's image: no zero pixel, the pixels of a field differ from each
\* other and from field to field
FieldImg(f, h, w) ==
    [k \in 1 .. (h * w) |-> 1 + ((k + FieldCode(f)) % (WordMod - 1))]

\* column timestamps and frame start timestamps (ns)
TimeVals == {0, 3}
StartVals == {1, 2}

Frames(h, w) ==
    {[h |-> h, w |-> w,
      fields |-> [f \in S |-> FieldImg(f, h, w)],
      timestamp |-> tsv] : S \in SUBSET ChanFields, tsv \in [1 .. w -> TimeVals]}

\* what the caller's clouds hold before the call: points of an earlier frame
StalePoint == [DefaultPoint EXCEPT !.x = 1, !.intensity = 1, !.t = 1, !.reflectivity = 1,
                                   !.ring = 255, !.ambient = 1, !.range = 1]

PriorCloud(scan) ==
    [width |-> scan.w, height |-> scan.h,
     points |-> [k \in 1 .. (scan.w * scan.h) |-> StalePoint]]

PriorDestaggered(scan) == NewCloud(scan.w, scan.h)

InitConvert ==
    /\ \E h \in Heights, w \in Widths :
          /\ ls \in Frames(h, w)
          /\ pixel_shift_by_row \in {[u \in 1 .. h |-> 1], [u \in 1 .. (h - 1) |-> 1]}
    /\ scan_ts \in StartVals
    /\ return_index \in {0, 1}
    /\ destagger \in BOOLEAN
    /\ cloud = PriorCloud(ls)
    /\ destaggeredcloud = PriorDestaggered(ls)
    /\ restaggered = NoCloud
    /\ access_log = << >>
    /\ pending = {} /\ pm = NoPacket /\ imu = NoImu
    /\ err = "none"
    /\ pc = "idle"

\* scan_to_cloud(xyz_lut, scan_ts, ls, cloud, return_index)
ScanToCloud ==
    /\ pc = "idle"
    /\ LET r == scan_to_cloud(scan_ts, ls, cloud, return_index)
       IN /\ cloud' = r.cl
          /\ access_log' = r.log
    /\ pc' = "done_scan_to_cloud"
    /\ UNCHANGED <<ls, scan_ts, return_index, destagger, pixel_shift_by_row,
                   destaggeredcloud, restaggered, pending, pm, imu, err>>

\* scan_to_cloud_f(points, lut_direction, lut_offset, scan_ts, ls, cloud,
\*                 destaggeredcloud, return_index, pixel_shift_by_row, destagger)
ScanToCloudF ==
    /\ pc = "idle"
    /\ LET r == scan_to_cloud_f(scan_ts, ls, cloud, destaggeredcloud, return_index,
                                pixel_shift_by_row, destagger)
       IN /\ cloud' = r.cloud
          /\ destaggeredcloud' = r.destaggeredcloud
          /\ access_log' = r.log
          /\ err' = r.thrown
          /\ pc' = IF r.thrown = "none" THEN "done_scan_to_cloud_f" ELSE "failed"
    /\ UNCHANGED <<ls, scan_ts, return_index, destagger, pixel_shift_by_row,
                   restaggered, pending, pm, imu>>

NextConvert == ScanToCloud \/ ScanToCloudF

SpecConvert == InitConvert /\ [][NextConvert]_vars

Converted == pc \in {"done_scan_to_cloud", "done_scan_to_cloud_f"}

\* the logical channels and the point member each one is stored in
Channels == {"RANGE", "SIGNAL", "REFLECTIVITY", "NEAR_IR"}

ChannelOf(p, f) ==
    CASE f = "RANGE" -> p.range
      [] f = "SIGNAL" -> p.intensity
      [] f = "REFLECTIVITY" -> p.reflectivity
      [] OTHER -> p.ambient

\* the frame's value of logical channel f at pixel k for the return asked
\* for, 0 when the frame has no such field
ChannelValue(scan, f, ret, k) ==
    LET rf == suitable_return(f, ret = 1)
    IN IF rf \in DOMAIN scan.fields THEN scan.fields[rf][k] ELSE 0

\* C3: every emitted point's t is column_timestamp[v] - frame_start clamped
\* into [0, frame_duration] for a frame duration D >= 0: 0 for a column
\* timestamp before the frame start, never a wrapped value.
C3_TimestampClamped ==
    (pc # "idle" /\ Len(access_log) > 0) =>
        \E D \in 0 .. 3 :
            \A u \in 0 .. (ls.h - 1), v \in 0 .. (ls.w - 1) :
                PointAt(cloud, v, u).t = Max(0, Min(ls.timestamp[v + 1] - scan_ts, D))

\* C4: a scan_to_cloud_f call whose destaggering fails on the shift table's
\* length leaves the caller's cloud and destaggeredcloud as they were.
C4_FailedDestaggerLeavesClouds ==
    (pc = "failed" /\ err = "invalid_argument") =>
        /\ cloud = PriorCloud(ls)
        /\ destaggeredcloud = PriorDestaggered(ls)

\* C5: when a channel resolved for the return asked for is absent from the
\* frame, either conversion completes without the absence raising an error
\* and every emitted point carries 0 for that channel.
C5_AbsentChannelZeroFilled ==
    pc # "idle" =>
        \A f \in Channels :
            suitable_return(f, return_index = 1) \notin DOMAIN ls.fields =>
                /\ err # "out_of_range"
                /\ \A k \in 1 .. Len(cloud.points) : ChannelOf(cloud.points[k], f) = 0

\* C6: a completed conversion yields H*W points in a cloud of the frame's
\* dimensions; pixel (u, v) is written exactly once, at index u*W + v, and
\* the point there carries the channel values of pixel (u, v) and ring u.
C6_RowMajorLayout ==
    Converted =>
        /\ Len(cloud.points) = ls.h * ls.w
        /\ cloud.width = ls.w
        /\ cloud.height = ls.h
        /\ Len(access_log) = ls.h * ls.w
        /\ \A u \in 0 .. (ls.h - 1), v \in 0 .. (ls.w - 1) :
               /\ Cardinality({e \in 1 .. Len(access_log) :
                                  access_log[e][3] = u * ls.w + v}) = 1
               /\ \E e \in 1 .. Len(access_log) : access_log[e] = <<u, v, u * ls.w + v>>
               /\ cloud.points[u * ls.w + v + 1].ring = u
               /\ \A f \in Channels :
                      ChannelOf(cloud.points[u * ls.w + v + 1], f) =
                          ChannelValue(ls, f, return_index, u * ls.w + v + 1)

C6_Witness ==
    /\ pc = "done_scan_to_cloud_f"
    /\ ls.w >= 2
    /\ DOMAIN ls.fields = ChanFields
    /\ return_index = 1
    /\ cloud.points[ls.h * ls.w].range = ls.fields["RANGE2"][ls.h * ls.w]

(***************************************************************************)
(* copy_scan_to_cloud's iterations run by OpenMP workers in any order      *)
(* (#pragma omp parallel for collapse(2)), or by one thread in a build     *)
(* without OpenMP.  Here access_log is the set of <<u, v, idx>> written.   *)
(***************************************************************************)
Pixels(scan) == (0 .. (scan.h - 1)) \X (0 .. (scan.w - 1))

ToSet(seq) == {seq[e] : e \in 1 .. Len(seq)}

InitParallel ==
    /\ \E h \in Heights, w \in Widths :
          ls \in {f \in Frames(h, w) : DOMAIN f.fields = ChanFields}
    /\ scan_ts \in StartVals
    /\ return_index \in {0, 1}
    /\ destagger = FALSE
    /\ pixel_shift_by_row = << >>
    /\ cloud = PriorCloud(ls)
    /\ destaggeredcloud = PriorDestaggered(ls)
    /\ restaggered = NoCloud
    /\ access_log = {}
    /\ pending = Pixels(ls)
    /\ pm = NoPacket /\ imu = NoImu
    /\ err = "none"
    /\ pc = "copying"

\* one iteration (u, v) of the collapsed loop nest, run by some worker
CopyIteration ==
    /\ pc = "copying"
    /\ \E px \in pending :
          LET r == CopyBody([cl |-> cloud, log |-> << >>], ls, scan_ts,
                            ScanToCloudFImages(ls, return_index = 1), px[1], px[2])
          IN /\ cloud' = r.cl
             /\ access_log' = access_log \cup ToSet(r.log)
             /\ pending' = pending \ {px}
    /\ UNCHANGED <<ls, scan_ts, return_index, destagger, pixel_shift_by_row,
                   destaggeredcloud, restaggered, pm, imu, err, pc>>

\* the loop nest run by the calling thread alone
CopySequential ==
    /\ pc = "copying"
    /\ pending = Pixels(ls)
    /\ LET r == copy_scan_to_cloud(cloud, ls, scan_ts,
                                   ScanToCloudFImages(ls, return_index = 1))
       IN /\ cloud' = r.cl
          /\ access_log' = ToSet(r.log)
    /\ pending' = {}
    /\ UNCHANGED <<ls, scan_ts, return_index, destagger, pixel_shift_by_row,
                   destaggeredcloud, restaggered, pm, imu, err, pc>>

\* the barrier that ends the parallel loop: every iteration has run
CopyJoin ==
    /\ pc = "copying"
    /\ pending = {}
    /\ pc' = "copied"
    /\ UNCHANGED <<ls, scan_ts, return_index, destagger, pixel_shift_by_row, cloud,
                   destaggeredcloud, restaggered, access_log, pending, pm, imu, err>>

NextParallel == CopyIteration \/ CopySequential \/ CopyJoin

SpecParallel == InitParallel /\ [][NextParallel]_vars

\* the cloud copy_scan_to_cloud leaves when one thread runs the loop nest
SequentialCloud ==
    copy_scan_to_cloud(PriorCloud(ls), ls, scan_ts,
                       ScanToCloudFImages(ls, return_index = 1)).cl

\* C8: whatever order the workers run the (u, v) iterations in, the cloud
\* after the loop is the one the sequential loop gives, and no two
\* iterations have written the same element.
C8_ScheduleIndependent ==
    pc = "copied" =>
        /\ cloud = SequentialCloud
        /\ Cardinality({e[3] : e \in access_log}) = ls.h * ls.w

C8_Witness ==
    /\ pc = "copied"
    /\ ls.w >= 2
    /\ cloud = SequentialCloud
    /\ cloud # PriorCloud(ls)

(***************************************************************************)
(* packet_to_imu_msg.  Values are fixed point: accelerations in 1e-5 m/s^2 *)
(* (raw values in g), angular velocities in 1e-7 rad/s (raw values in      *)
(* deg/s), covariances in 1e-4.                                            *)
(***************************************************************************)
standard_g == 980665
M_PI == 31415927

\* what the packet format's readers decode from a packet's buffer
RawVals == {-1, 0, 2}

Packets ==
    [la_x : RawVals, la_y : RawVals, la_z : RawVals,
     av_x : RawVals, av_y : RawVals, av_z : RawVals, gyro_ts : {0, 5}]

\* for (int i = 0; i < 9; i++): every covariance entry
RECURSIVE FillCovariances(_, _)
FillCovariances(m, i) ==
    IF ~(i < 9) THEN m
    ELSE FillCovariances([m EXCEPT !.orientation_covariance[i + 1] = -1,
                                   !.angular_velocity_covariance[i + 1] = 0,
                                   !.linear_acceleration_covariance[i + 1] = 0], i + 1)

\* a plausible slip: a stride of 3 walks the first column, not the diagonal
RECURSIVE FillDiagonalStride3(_, _)
FillDiagonalStride3(m, i) ==
    IF ~(i < 9) THEN m
    ELSE FillDiagonalStride3([m EXCEPT !.linear_acceleration_covariance[i + 1] = 100,
                                       !.angular_velocity_covariance[i + 1] = 6], i + 3)

\* for (int i = 0; i < 9; i += 4): the diagonal, 0.01 and 6e-4
RECURSIVE FillDiagonal(_, _)
FillDiagonal(m, i) ==
    IF ~(i < 9) THEN m
    ELSE FillDiagonal([m EXCEPT !.linear_acceleration_covariance[i + 1] = 100,
                                !.angular_velocity_covariance[i + 1] = 6], i + 4)

\* a sensor_msgs::Imu as default-constructed
NewImu ==
    [header |-> [stamp |-> 0, frame_id |-> ""],
     orientation |-> [x |-> 0, y |-> 0, z |-> 0, w |-> 0],
     orientation_covariance |-> [i \in 1 .. 9 |-> 0],
     angular_velocity |-> [x |-> 0, y |-> 0, z |-> 0],
     angular_velocity_covariance |-> [i \in 1 .. 9 |-> 0],
     linear_acceleration |-> [x |-> 0, y |-> 0, z |-> 0],
     linear_acceleration_covariance |-> [i \in 1 .. 9 |-> 0]]

\* packet_to_imu_msg(pm, timestamp, frame, pf)
packet_to_imu_msg4(p, timestamp, frame) ==
    LET m == [NewImu EXCEPT
                 !.header = [stamp |-> timestamp, frame_id |-> frame],
                 !.orientation = [x |-> 0, y |-> 0, z |-> 0, w |-> 0],
                 !.linear_acceleration = [x |-> p.la_x * standard_g,
                                          y |-> p.la_y * standard_g,
                                          z |-> p.la_z * standard_g],
                 !.angular_velocity = [x |-> (p.av_x * M_PI) \div 180,
                                       y |-> (p.av_y * M_PI) \div 180,
                                       z |-> (p.av_z * M_PI) \div 180]]
    IN FillDiagonal(FillCovariances(m, 0), 0)

\* packet_to_imu_msg(pm, frame, pf): the stamp is the packet's gyro timestamp
packet_to_imu_msg(p, frame) == packet_to_imu_msg4(p, p.gyro_ts, frame)

InitImu ==
    /\ pm \in Packets
    /\ imu = NoImu
    /\ ls = NoScan /\ scan_ts = 0 /\ return_index = 0 /\ destagger = FALSE
    /\ pixel_shift_by_row = << >>
    /\ cloud = NoCloud /\ destaggeredcloud = NoCloud /\ restaggered = NoCloud
    /\ access_log = << >> /\ pending = {}
    /\ err = "none"
    /\ pc = "idle"

PacketToImuMsg ==
    /\ pc = "idle"
    /\ imu' = packet_to_imu_msg(pm, "os_imu")
    /\ pc' = "imu_done"
    /\ UNCHANGED <<ls, scan_ts, return_index, destagger, pixel_shift_by_row, cloud,
                   destaggeredcloud, restaggered, access_log, pending, pm, err>>

NextImu == PacketToImuMsg

SpecImu == InitImu /\ [][NextImu]_vars

ZeroPacket(p) ==
    /\ p.la_x = 0 /\ p.la_y = 0 /\ p.la_z = 0
    /\ p.av_x = 0 /\ p.av_y = 0 /\ p.av_z = 0

\* C9: every IMU message has all four orientation fields 0,
\* orientation_covariance[0] = -1, linear-acceleration covariance diagonal
\* 0.01 and angular-velocity covariance diagonal 6e-4 with 0 off the
\* diagonal; a zero-valued packet gives zero acceleration and velocity.
C9_ImuConstants ==
    pc = "imu_done" =>
        /\ imu.orientation = [x |-> 0, y |-> 0, z |-> 0, w |-> 0]
        /\ imu.orientation_covariance[1] = -1
        /\ \A i \in 0 .. 8 :
               /\ imu.linear_acceleration_covariance[i + 1] =
                      (IF i \in {0, 4, 8} THEN 100 ELSE 0)
               /\ imu.angular_velocity_covariance[i + 1] =
                      (IF i \in {0, 4, 8} THEN 6 ELSE 0)
        /\ ZeroPacket(pm) =>
               /\ imu.linear_acceleration = [x |-> 0, y |-> 0, z |-> 0]
               /\ imu.angular_velocity = [x |-> 0, y |-> 0, z |-> 0]

C9_Witness ==
    /\ pc = "imu_done"
    /\ ZeroPacket(pm)
    /\ imu.linear_acceleration_covariance[5] = 100
    /\ imu.orientation_covariance[1] = -1

====
